---- MODULE Spec2Model ----
(***************************************************************************)
(* Model of the Stripe search query builder (SearchQueryBuilder and its    *)
(* FieldBuilder / MetadataFieldBuilder sub-builders, and the escaping      *)
(* helpers).  Free-text strings (field names, keys, values, the output of  *)
(* build()) are sequences of one-character strings, so that length,        *)
(* escaping and joining are computed character by character; the closed    *)
(* string-literal types of types.ts (clause type, operators) and the error *)
(* messages are TLA+ strings.                                              *)
(***************************************************************************)
EXTENDS Integers, Sequences, FiniteSets, TLC

VARIABLES clauses, logicalOperator, call, thrown, returned, committed

vars == <<clauses, logicalOperator, call, thrown, returned, committed>>

\* Longest clause sequence explored under Spec (whole API, short chains).
MaxClauses == 3

\* Longest clause sequence explored under SpecChain (few inputs, long chains).
MaxChain == 5

\* Longest clause sequence explored under SpecTerminals (every terminal, two clauses).
MaxTerminals == 2

\* Longest string value and longest metadata key explored under SpecEscape.
MaxRaw == 3

MaxKey == 2

----------------------------------------------------------------------------
(* Values and errors *)

\* value: string | number | null
NullValue == [type |-> "null"]

NumberValue(n) == [type |-> "number", n |-> n]

StringValue(s) == [type |-> "string", s |-> s]

\* logicalOperator: LogicalOperator | null
null == "null"

NoError == "none"

MixError == "Cannot mix AND and OR operators in a single query"

SubstringError == "Substring match requires at least 3 characters"

\* The characters of the operator literals placed in the output by build().
Chars(lit) ==
  CASE lit = "AND" -> <<"A", "N", "D">>
    [] lit = "OR" -> <<"O", "R">>
    [] lit = ":" -> <<":">>
    [] lit = "~" -> <<"~">>
    [] lit = ">" -> <<">">>
    [] lit = "<" -> <<"<">>
    [] lit = ">=" -> <<">", "=">>
    [] lit = "<=" -> <<"<", "=">>

----------------------------------------------------------------------------
(* utils.ts *)

RECURSIVE replaceAll(_, _, _)
replaceAll(s, ch, rep) ==
  IF s = <<>> THEN <<>>
  ELSE (IF Head(s) = ch THEN rep ELSE <<Head(s)>>) \o replaceAll(Tail(s), ch, rep)

\* escaping that leaves the backslashes as they are
escapeAndQuote_noBackslash(value) ==
  <<"\"">> \o replaceAll(value, "\"", <<"\\", "\"">>) \o <<"\"">>

\* escaping that replaces the quotes before the backslashes
escapeAndQuote_quotesFirst(value) ==
  LET escaped == replaceAll(replaceAll(value, "\"", <<"\\", "\"">>),
                            "\\", <<"\\", "\\">>)
  IN <<"\"">> \o escaped \o <<"\"">>

escapeAndQuote(value) ==
  LET escaped == replaceAll(replaceAll(value, "\\", <<"\\", "\\">>),
                            "\"", <<"\\", "\"">>)
  IN <<"\"">> \o escaped \o <<"\"">>

escapeStringValue(value) == escapeAndQuote(value)

escapeMetadataKey(key) == escapeAndQuote(key)

Digit(d) == <<"0", "1", "2", "3", "4", "5", "6", "7", "8", "9">>[d + 1]

RECURSIVE digits(_)
digits(n) == IF n < 10 THEN <<Digit(n)>> ELSE digits(n \div 10) \o <<Digit(n % 10)>>

\* Number.prototype.toString() on an integer
toString(n) == IF n < 0 THEN <<"-">> \o digits(0 - n) ELSE digits(n)

\* formatValue() that returns a string value as it is
formatValue_unquoted(value) ==
  IF value.type = "null" THEN <<"n", "u", "l", "l">>
  ELSE IF value.type = "number" THEN toString(value.n)
  ELSE value.s

formatValue(value) ==
  IF value.type = "null" THEN <<"n", "u", "l", "l">>
  ELSE IF value.type = "number" THEN toString(value.n)
  ELSE escapeStringValue(value.s)

----------------------------------------------------------------------------
(* query-builder.ts: the builder object and the results of its methods *)

\* new SearchQueryBuilder()
stripeQuery == [clauses |-> <<>>, logicalOperator |-> null]

\* A method that returns normally, leaving the builder as b.
Ok(b) == [builder |-> b, thrown |-> NoError]

\* A method that throws Error(msg), the builder being b at that point.
Throw(b, msg) == [builder |-> b, thrown |-> msg]

\* addFieldClause() that puts the clause in front of the others
addFieldClause_unshift(this, clause) ==
  [this EXCEPT !.clauses = <<clause>> \o this.clauses]

addFieldClause(this, clause) ==
  [this EXCEPT !.clauses = Append(this.clauses, clause)]

field(f) == [field |-> f, negated |-> FALSE]

not(f) == [field |-> f, negated |-> TRUE]

metadata(key) == [key |-> key, negated |-> FALSE]

notMetadata(key) == [key |-> key, negated |-> TRUE]

\* and() that appends nothing when the sequence is empty or ends in a connective
and_collapse(this) ==
  IF this.logicalOperator = "OR" THEN Throw(this, MixError)
  ELSE IF this.clauses = <<>> \/ this.clauses[Len(this.clauses)].type = "logical"
  THEN Ok([this EXCEPT !.logicalOperator = "AND"])
  ELSE Ok([clauses |-> Append(this.clauses, [type |-> "logical", operator |-> "AND"]),
           logicalOperator |-> "AND"])

\* and() that appends its clause without recording the connective
and_noLock(this) ==
  IF this.logicalOperator = "OR" THEN Throw(this, MixError)
  ELSE Ok([this EXCEPT !.clauses = Append(this.clauses, [type |-> "logical", operator |-> "AND"])])

and(this) ==
  IF this.logicalOperator = "OR" THEN Throw(this, MixError)
  ELSE Ok([clauses |-> Append(this.clauses, [type |-> "logical", operator |-> "AND"]),
           logicalOperator |-> "AND"])

\* or() that appends its clause before it looks at the lock
or_pushFirst(this) ==
  LET pushed == [this EXCEPT !.clauses = Append(this.clauses, [type |-> "logical", operator |-> "OR"])]
  IN IF this.logicalOperator = "AND" THEN Throw(pushed, MixError)
     ELSE Ok([pushed EXCEPT !.logicalOperator = "OR"])

\* or() that never looks at the lock
or_noCheck(this) ==
  Ok([clauses |-> Append(this.clauses, [type |-> "logical", operator |-> "OR"]),
      logicalOperator |-> "OR"])

or(this) ==
  IF this.logicalOperator = "AND" THEN Throw(this, MixError)
  ELSE Ok([clauses |-> Append(this.clauses, [type |-> "logical", operator |-> "OR"]),
           logicalOperator |-> "OR"])

\* reset() that clears the lock and keeps the clauses
reset_keepClauses(this) == Ok([this EXCEPT !.logicalOperator = null])

\* reset() that forgets to clear the lock
reset_keepLock(this) == Ok([this EXCEPT !.clauses = <<>>])

reset(this) == Ok([clauses |-> <<>>, logicalOperator |-> null])

----------------------------------------------------------------------------
(* FieldBuilder *)

FieldBuilder_addClause(fb, this, operator, value) ==
  addFieldClause(this, [type |-> "field", field |-> fb.field, operator |-> operator,
                        value |-> value, negated |-> fb.negated])

FieldBuilder_equals(fb, this, value) == Ok(FieldBuilder_addClause(fb, this, ":", value))

\* contains() without the length check
FieldBuilder_contains_noCheck(fb, this, value) ==
  Ok(FieldBuilder_addClause(fb, this, "~", value))

FieldBuilder_contains(fb, this, value) ==
  IF Len(value.s) < 3 THEN Throw(this, SubstringError)
  ELSE Ok(FieldBuilder_addClause(fb, this, "~", value))

greaterThan(fb, this, value) == Ok(FieldBuilder_addClause(fb, this, ">", value))

lessThan(fb, this, value) == Ok(FieldBuilder_addClause(fb, this, "<", value))

\* greaterThanOrEqual() with the operator of greaterThan()
greaterThanOrEqual_strict(fb, this, value) == Ok(FieldBuilder_addClause(fb, this, ">", value))

greaterThanOrEqual(fb, this, value) == Ok(FieldBuilder_addClause(fb, this, ">=", value))

lessThanOrEqual(fb, this, value) == Ok(FieldBuilder_addClause(fb, this, "<=", value))

FieldBuilder_isNull(fb, this) == Ok(FieldBuilder_addClause(fb, this, ":", NullValue))

\* between() that puts the lock back as it found it
between_restoreLock(fb, this, min, max) ==
  LET first == FieldBuilder_addClause(fb, this, ">=", min)
      anded == and(first)
  IN IF anded.thrown # NoError THEN anded
     ELSE Ok([FieldBuilder_addClause(fb, anded.builder, "<=", max)
                EXCEPT !.logicalOperator = this.logicalOperator])

\* between() that appends the upper bound before the lower bound
between_swapped(fb, this, min, max) ==
  LET first == FieldBuilder_addClause(fb, this, "<=", max)
      anded == and(first)
  IN IF anded.thrown # NoError THEN anded
     ELSE Ok(FieldBuilder_addClause(fb, anded.builder, ">=", min))

\* between() that appends its own AND clause instead of calling and()
between_ownAnd(fb, this, min, max) ==
  LET first == FieldBuilder_addClause(fb, this, ">=", min)
      anded == [first EXCEPT !.clauses = Append(first.clauses, [type |-> "logical", operator |-> "AND"])]
  IN Ok(FieldBuilder_addClause(fb, anded, "<=", max))

\* addClause(">=", min); queryBuilder.and(); addClause("<=", max): an error
\* thrown by and() leaves the builder as the first addClause made it.
between(fb, this, min, max) ==
  LET first == FieldBuilder_addClause(fb, this, ">=", min)
      anded == and(first)
  IN IF anded.thrown # NoError THEN anded
     ELSE Ok(FieldBuilder_addClause(fb, anded.builder, "<=", max))

----------------------------------------------------------------------------
(* MetadataFieldBuilder *)

\* addClause() that quotes the key without escaping it
MetadataFieldBuilder_addClause_rawKey(mb, this, operator, value) ==
  LET f == <<"m", "e", "t", "a", "d", "a", "t", "a", "[", "\"">>
             \o mb.key \o <<"\"", "]">>
  IN addFieldClause(this, [type |-> "field", field |-> f, operator |-> operator,
                           value |-> value, negated |-> mb.negated])

MetadataFieldBuilder_addClause(mb, this, operator, value) ==
  LET f == <<"m", "e", "t", "a", "d", "a", "t", "a", "[">>
             \o escapeMetadataKey(mb.key) \o <<"]">>
  IN addFieldClause(this, [type |-> "field", field |-> f, operator |-> operator,
                           value |-> value, negated |-> mb.negated])

MetadataFieldBuilder_equals(mb, this, value) ==
  Ok(MetadataFieldBuilder_addClause(mb, this, ":", value))

\* contains() without the length check
MetadataFieldBuilder_contains_noCheck(mb, this, value) ==
  Ok(MetadataFieldBuilder_addClause(mb, this, "~", value))

MetadataFieldBuilder_contains(mb, this, value) ==
  IF Len(value.s) < 3 THEN Throw(this, SubstringError)
  ELSE Ok(MetadataFieldBuilder_addClause(mb, this, "~", value))

MetadataFieldBuilder_isNull(mb, this) ==
  Ok(MetadataFieldBuilder_addClause(mb, this, ":", NullValue))

----------------------------------------------------------------------------
(* SearchQueryBuilder.build *)

\* parts.join() with the default separator of Array.prototype.join
RECURSIVE join_comma(_, _)
join_comma(parts, sep) ==
  IF parts = <<>> THEN <<>>
  ELSE IF Len(parts) = 1 THEN parts[1]
  ELSE parts[1] \o <<",">> \o join_comma(Tail(parts), sep)

RECURSIVE join(_, _)
join(parts, sep) ==
  IF parts = <<>> THEN <<>>
  ELSE IF Len(parts) = 1 THEN parts[1]
  ELSE parts[1] \o sep \o join(Tail(parts), sep)

\* the token of a field clause without the negation prefix
fieldToken_noPrefix(clause) ==
  clause.field \o Chars(clause.operator) \o formatValue(clause.value)

\* The token pushed for a field clause.
fieldToken(clause) ==
  LET prefix == IF clause.negated THEN <<"-">> ELSE <<>>
      value == formatValue(clause.value)
  IN prefix \o clause.field \o Chars(clause.operator) \o value

\* the loop of build() without the skip of leading logical operators
RECURSIVE buildLoop_keepLeading(_, _, _, _, _)
buildLoop_keepLeading(cs, i, parts, lastWasLogical, hasFieldClause) ==
  IF i > Len(cs) THEN [parts |-> parts, lastWasLogical |-> lastWasLogical]
  ELSE LET clause == cs[i] IN
    IF clause.type = "field"
    THEN buildLoop_keepLeading(cs, i + 1, Append(parts, fieldToken(clause)), FALSE, TRUE)
    ELSE IF ~lastWasLogical
    THEN buildLoop_keepLeading(cs, i + 1, Append(parts, Chars(clause.operator)), TRUE,
                               hasFieldClause)
    ELSE buildLoop_keepLeading(cs, i + 1, parts, lastWasLogical, hasFieldClause)

\* the loop of build() without the collapse of consecutive logical operators
RECURSIVE buildLoop_noCollapse(_, _, _, _, _)
buildLoop_noCollapse(cs, i, parts, lastWasLogical, hasFieldClause) ==
  IF i > Len(cs) THEN [parts |-> parts, lastWasLogical |-> lastWasLogical]
  ELSE LET clause == cs[i] IN
    IF clause.type = "field"
    THEN buildLoop_noCollapse(cs, i + 1, Append(parts, fieldToken(clause)), FALSE, TRUE)
    ELSE IF ~hasFieldClause
    THEN buildLoop_noCollapse(cs, i + 1, parts, lastWasLogical, hasFieldClause)
    ELSE buildLoop_noCollapse(cs, i + 1, Append(parts, Chars(clause.operator)), TRUE,
                              hasFieldClause)

\* the loop of build() that pushes every clause it meets
RECURSIVE buildLoop_pushAll(_, _, _, _, _)
buildLoop_pushAll(cs, i, parts, lastWasLogical, hasFieldClause) ==
  IF i > Len(cs) THEN [parts |-> parts, lastWasLogical |-> lastWasLogical]
  ELSE LET clause == cs[i] IN
    IF clause.type = "field"
    THEN buildLoop_pushAll(cs, i + 1, Append(parts, fieldToken(clause)), FALSE, TRUE)
    ELSE buildLoop_pushAll(cs, i + 1, Append(parts, Chars(clause.operator)), TRUE,
                           hasFieldClause)

\* The for loop of build(), from clause i on.
RECURSIVE buildLoop(_, _, _, _, _)
buildLoop(cs, i, parts, lastWasLogical, hasFieldClause) ==
  IF i > Len(cs) THEN [parts |-> parts, lastWasLogical |-> lastWasLogical]
  ELSE LET clause == cs[i] IN
    IF clause.type = "field"
    THEN buildLoop(cs, i + 1, Append(parts, fieldToken(clause)), FALSE, TRUE)
    ELSE IF ~hasFieldClause
    THEN buildLoop(cs, i + 1, parts, lastWasLogical, hasFieldClause)
    ELSE IF ~lastWasLogical
    THEN buildLoop(cs, i + 1, Append(parts, Chars(clause.operator)), TRUE, hasFieldClause)
    ELSE buildLoop(cs, i + 1, parts, lastWasLogical, hasFieldClause)

\* the parts of build() with shift() in place of pop()
buildParts_shift(cs) ==
  LET walked == buildLoop(cs, 1, <<>>, FALSE, FALSE)
  IN IF walked.lastWasLogical
     THEN SubSeq(walked.parts, 2, Len(walked.parts))
     ELSE walked.parts

\* the parts of build() without the removal of a trailing logical operator
buildParts_noPop(cs) == buildLoop(cs, 1, <<>>, FALSE, FALSE).parts

\* The parts array of build() just before parts.join(" ").
buildParts(cs) ==
  LET walked == buildLoop(cs, 1, <<>>, FALSE, FALSE)
  IN IF walked.lastWasLogical
     THEN SubSeq(walked.parts, 1, Len(walked.parts) - 1)
     ELSE walked.parts

\* build() that removes a trailing logical operator from the clauses themselves
build_popTrailing(this) ==
  LET n == Len(this.clauses)
      kept == IF n > 0 /\ this.clauses[n].type = "logical"
              THEN SubSeq(this.clauses, 1, n - 1) ELSE this.clauses
  IN [builder |-> [this EXCEPT !.clauses = kept],
      returned |-> IF Len(this.clauses) = 0 THEN <<>>
                   ELSE join(buildParts(this.clauses), <<" ">>)]

\* The string build() returns, and the builder it leaves.
build(this) ==
  [builder |-> this,
   returned |-> IF Len(this.clauses) = 0 THEN <<>>
                ELSE join(buildParts(this.clauses), <<" ">>)]

----------------------------------------------------------------------------
(* Inputs *)

Fields == {<<"a">>}

Keys == {<<"k">>}

FieldBuilders == {field(f) : f \in Fields} \cup {not(f) : f \in Fields}

MetadataFieldBuilders == {metadata(k) : k \in Keys} \cup {notMetadata(k) : k \in Keys}

Nums == {NumberValue(1)}

\* one string too short for contains(), one long enough
Strs == {StringValue(<<"a", "b">>), StringValue(<<"a", "b", "c">>)}

EqualsValues == {NullValue, NumberValue(1), StringValue(<<"a", "b", "c">>)}

\* a plain character, the double quote and the backslash
EscAlphabet == {"a", "\"", "\\"}

StringsUpTo(n) == UNION {[1..k -> EscAlphabet] : k \in 0..n}

EscNumbers == {NumberValue(0), NumberValue(1000), NumberValue(0 - 25)}

EscValues ==
  {StringValue(s) : s \in StringsUpTo(MaxRaw)}
    \cup {StringValue(<<"n", "u", "l", "l">>), StringValue(<<"1", "0", "0", "0">>)}
    \cup {NullValue} \cup EscNumbers

EscMetadataBuilders ==
  {metadata(k) : k \in StringsUpTo(MaxKey)} \cup {notMetadata(k) : k \in StringsUpTo(MaxKey)}

ChainFieldBuilders == {field(<<"a">>), not(<<"a">>)}

ChainValues == {NumberValue(1)}

ChainRanges == {<<NumberValue(1), NumberValue(2)>>}

----------------------------------------------------------------------------
(* Calls on the one builder of the model *)

this == [clauses |-> clauses, logicalOperator |-> logicalOperator]

\* The connectives whose and()/or() has returned normally since construction
\* or the last reset().
Commit(name, r) ==
  IF name = "reset" THEN {}
  ELSE IF r.thrown # NoError THEN committed
  ELSE IF name \in {"and", "between"} THEN committed \cup {"AND"}
  ELSE IF name = "or" THEN committed \cup {"OR"}
  ELSE committed

\* The builder after the call, what was thrown, and the call made.
Call(name, r) ==
  /\ clauses' = r.builder.clauses
  /\ logicalOperator' = r.builder.logicalOperator
  /\ thrown' = r.thrown
  /\ call' = name
  /\ returned' = <<>>
  /\ committed' = Commit(name, r)

Room(n, max) == Len(clauses) + n <= max

Equals(max, FB, V) ==
  \E fb \in FB, v \in V : Room(1, max) /\ Call("equals", FieldBuilder_equals(fb, this, v))

Contains(max, FB, V) ==
  \E fb \in FB, v \in V : Room(1, max) /\ Call("contains", FieldBuilder_contains(fb, this, v))

GreaterThan(max, FB, V) ==
  \E fb \in FB, v \in V : Room(1, max) /\ Call("greaterThan", greaterThan(fb, this, v))

LessThan(max, FB, V) ==
  \E fb \in FB, v \in V : Room(1, max) /\ Call("lessThan", lessThan(fb, this, v))

GreaterThanOrEqual(max, FB, V) ==
  \E fb \in FB, v \in V :
    Room(1, max) /\ Call("greaterThanOrEqual", greaterThanOrEqual(fb, this, v))

LessThanOrEqual(max, FB, V) ==
  \E fb \in FB, v \in V :
    Room(1, max) /\ Call("lessThanOrEqual", lessThanOrEqual(fb, this, v))

IsNull(max, FB) ==
  \E fb \in FB : Room(1, max) /\ Call("isNull", FieldBuilder_isNull(fb, this))

Between(max, FB, R) ==
  \E fb \in FB, r \in R : Room(3, max) /\ Call("between", between(fb, this, r[1], r[2]))

MetadataEquals(max, MB, V) ==
  \E mb \in MB, v \in V :
    Room(1, max) /\ Call("metadataEquals", MetadataFieldBuilder_equals(mb, this, v))

MetadataContains(max, MB, V) ==
  \E mb \in MB, v \in V :
    Room(1, max) /\ Call("metadataContains", MetadataFieldBuilder_contains(mb, this, v))

MetadataIsNull(max, MB) ==
  \E mb \in MB : Room(1, max) /\ Call("metadataIsNull", MetadataFieldBuilder_isNull(mb, this))

And(max) == Room(1, max) /\ Call("and", and(this))

Or(max) == Room(1, max) /\ Call("or", or(this))

Reset == Call("reset", reset(this))

Build ==
  LET r == build(this) IN
  /\ clauses' = r.builder.clauses
  /\ logicalOperator' = r.builder.logicalOperator
  /\ returned' = r.returned
  /\ call' = "build"
  /\ thrown' = NoError
  /\ UNCHANGED committed

----------------------------------------------------------------------------
(* Specifications *)

Init ==
  /\ clauses = stripeQuery.clauses
  /\ logicalOperator = stripeQuery.logicalOperator
  /\ call = "stripeQuery"
  /\ thrown = NoError
  /\ returned = <<>>
  /\ committed = {}

\* The whole API on short chains.
Next ==
  \/ Equals(MaxClauses, FieldBuilders, EqualsValues)
  \/ Contains(MaxClauses, FieldBuilders, Strs)
  \/ GreaterThan(MaxClauses, FieldBuilders, Nums)
  \/ LessThan(MaxClauses, FieldBuilders, Nums)
  \/ GreaterThanOrEqual(MaxClauses, FieldBuilders, Nums)
  \/ LessThanOrEqual(MaxClauses, FieldBuilders, Nums)
  \/ IsNull(MaxClauses, FieldBuilders)
  \/ Between(MaxClauses, FieldBuilders, {<<n, n>> : n \in Nums})
  \/ MetadataEquals(MaxClauses, MetadataFieldBuilders, EqualsValues)
  \/ MetadataContains(MaxClauses, MetadataFieldBuilders, Strs)
  \/ MetadataIsNull(MaxClauses, MetadataFieldBuilders)
  \/ And(MaxClauses)
  \/ Or(MaxClauses)
  \/ Reset
  \/ Build

Spec == Init /\ [][Next]_vars

\* Long chains of equals, between, and, or, reset, build on one plain field.
NextChain ==
  \/ Equals(MaxChain, ChainFieldBuilders, ChainValues)
  \/ Between(MaxChain, ChainFieldBuilders, ChainRanges)
  \/ And(MaxChain)
  \/ Or(MaxChain)
  \/ Reset
  \/ Build

SpecChain == Init /\ [][NextChain]_vars

\* One-clause queries on a fresh builder (as chargeTemplates.byCurrency builds
\* them): equals() on string, number and null values and the metadata
\* terminals on keys, the strings holding quotes and backslashes.
NextEscape ==
  \/ Equals(1, {field(<<"a">>)}, EscValues)
  \/ MetadataEquals(1, EscMetadataBuilders, {StringValue(<<"v">>)})
  \/ MetadataContains(1, EscMetadataBuilders, {StringValue(<<"a", "b", "c">>)})
  \/ MetadataIsNull(1, EscMetadataBuilders)
  \/ Reset
  \/ Build

SpecEscape == Init /\ [][NextEscape]_vars

\* Every terminal operation of both sub-builders, and(), or(), reset(), build().
NextTerminals ==
  \/ Equals(MaxTerminals, FieldBuilders, EqualsValues)
  \/ Contains(MaxTerminals, FieldBuilders, Strs)
  \/ GreaterThan(MaxTerminals, FieldBuilders, Nums)
  \/ LessThan(MaxTerminals, FieldBuilders, Nums)
  \/ GreaterThanOrEqual(MaxTerminals, FieldBuilders, Nums)
  \/ LessThanOrEqual(MaxTerminals, FieldBuilders, Nums)
  \/ IsNull(MaxTerminals, FieldBuilders)
  \/ MetadataEquals(MaxTerminals, MetadataFieldBuilders, EqualsValues)
  \/ MetadataContains(MaxTerminals, MetadataFieldBuilders, Strs)
  \/ MetadataIsNull(MaxTerminals, MetadataFieldBuilders)
  \/ And(MaxTerminals)
  \/ Or(MaxTerminals)
  \/ Reset
  \/ Build

SpecTerminals == Init /\ [][NextTerminals]_vars

\* field(f), not(f), metadata(key), notMetadata(key) called and the sub-builder
\* dropped without a terminal call: the methods construct the sub-builder and
\* assign nothing on the builder.
FieldOnly == \E f \in Fields : field(f) \in FieldBuilders /\ Call("field", Ok(this))

NotOnly == \E f \in Fields : not(f) \in FieldBuilders /\ Call("not", Ok(this))

MetadataOnly ==
  \E k \in Keys : metadata(k) \in MetadataFieldBuilders /\ Call("metadata", Ok(this))

NotMetadataOnly ==
  \E k \in Keys : notMetadata(k) \in MetadataFieldBuilders /\ Call("notMetadata", Ok(this))

\* The terminals of SpecTerminals, and sub-builders opened and left unused.
NextSubBuilders ==
  \/ NextTerminals
  \/ FieldOnly
  \/ NotOnly
  \/ MetadataOnly
  \/ NotMetadataOnly

SpecSubBuilders == Init /\ [][NextSubBuilders]_vars

----------------------------------------------------------------------------
(* customer-query.ts *)

\* Longest clause sequence explored under SpecCustomer.
MaxCustomer == 3

\* new CustomerQueryBuilder(): the wrapper holds one SearchQueryBuilder.
customerQuery == [builder |-> stripeQuery]

\* new CustomerFieldBuilder(customerBuilder, fieldName, negated)
CustomerFieldBuilder(fieldName, negated) == [fieldName |-> fieldName, negated |-> negated]

\* new CustomerMetadataFieldBuilder(customerBuilder, key, negated)
CustomerMetadataFieldBuilder(key, negated) == [key |-> key, negated |-> negated]

CustomerQueryBuilder_email == CustomerFieldBuilder(<<"e", "m", "a", "i", "l">>, FALSE)

CustomerQueryBuilder_name == CustomerFieldBuilder(<<"n", "a", "m", "e">>, FALSE)

CustomerQueryBuilder_phone == CustomerFieldBuilder(<<"p", "h", "o", "n", "e">>, FALSE)

CustomerQueryBuilder_description ==
  CustomerFieldBuilder(<<"d", "e", "s", "c", "r", "i", "p", "t", "i", "o", "n">>, FALSE)

CustomerQueryBuilder_created ==
  CustomerFieldBuilder(<<"c", "r", "e", "a", "t", "e", "d">>, FALSE)

CustomerQueryBuilder_metadata(key) == CustomerMetadataFieldBuilder(key, FALSE)

CustomerFieldBuilder_not(cfb) == CustomerFieldBuilder(cfb.fieldName, TRUE)

\* getBuilder() that forgets the negation
CustomerFieldBuilder_getBuilder_plain(cfb) == field(cfb.fieldName)

CustomerFieldBuilder_getBuilder(cfb) ==
  IF cfb.negated THEN not(cfb.fieldName) ELSE field(cfb.fieldName)

CustomerMetadataFieldBuilder_getBuilder(cmb) ==
  IF cmb.negated THEN notMetadata(cmb.key) ELSE metadata(cmb.key)

\* What a wrapper method leaves and throws when the call it makes on its
\* inner builder leaves and throws r (`return this.customerBuilder` is
\* reached only when the inner call returns).
Delegated(cb, r) == [builder |-> [cb EXCEPT !.builder = r.builder], thrown |-> r.thrown]

CustomerFieldBuilder_equals(cfb, cb, value) ==
  Delegated(cb, FieldBuilder_equals(CustomerFieldBuilder_getBuilder(cfb), cb.builder, value))

CustomerFieldBuilder_contains(cfb, cb, value) ==
  Delegated(cb, FieldBuilder_contains(CustomerFieldBuilder_getBuilder(cfb), cb.builder, value))

CustomerFieldBuilder_greaterThan(cfb, cb, value) ==
  Delegated(cb, greaterThan(CustomerFieldBuilder_getBuilder(cfb), cb.builder, value))

CustomerFieldBuilder_lessThan(cfb, cb, value) ==
  Delegated(cb, lessThan(CustomerFieldBuilder_getBuilder(cfb), cb.builder, value))

CustomerFieldBuilder_greaterThanOrEqual(cfb, cb, value) ==
  Delegated(cb, greaterThanOrEqual(CustomerFieldBuilder_getBuilder(cfb), cb.builder, value))

CustomerFieldBuilder_lessThanOrEqual(cfb, cb, value) ==
  Delegated(cb, lessThanOrEqual(CustomerFieldBuilder_getBuilder(cfb), cb.builder, value))

CustomerFieldBuilder_between(cfb, cb, min, max) ==
  Delegated(cb, between(CustomerFieldBuilder_getBuilder(cfb), cb.builder, min, max))

CustomerFieldBuilder_isNull(cfb, cb) ==
  Delegated(cb, FieldBuilder_isNull(CustomerFieldBuilder_getBuilder(cfb), cb.builder))

CustomerMetadataFieldBuilder_equals(cmb, cb, value) ==
  Delegated(cb, MetadataFieldBuilder_equals(CustomerMetadataFieldBuilder_getBuilder(cmb),
                                            cb.builder, value))

CustomerMetadataFieldBuilder_contains(cmb, cb, value) ==
  Delegated(cb, MetadataFieldBuilder_contains(CustomerMetadataFieldBuilder_getBuilder(cmb),
                                              cb.builder, value))

CustomerMetadataFieldBuilder_isNull(cmb, cb) ==
  Delegated(cb, MetadataFieldBuilder_isNull(CustomerMetadataFieldBuilder_getBuilder(cmb),
                                            cb.builder))

CustomerQueryBuilder_and(cb) == Delegated(cb, and(cb.builder))

CustomerQueryBuilder_or(cb) == Delegated(cb, or(cb.builder))

CustomerQueryBuilder_reset(cb) == Delegated(cb, reset(cb.builder))

CustomerQueryBuilder_build(cb) ==
  LET r == build(cb.builder)
  IN [builder |-> [cb EXCEPT !.builder = r.builder], returned |-> r.returned]

\* Inputs: every field of the wrapper, and one negated field.
CustomerEqualsBuilders ==
  {CustomerQueryBuilder_email, CustomerQueryBuilder_name, CustomerQueryBuilder_phone,
   CustomerQueryBuilder_description, CustomerQueryBuilder_created,
   CustomerFieldBuilder_not(CustomerQueryBuilder_email)}

CustomerTextBuilders ==
  {CustomerQueryBuilder_email, CustomerFieldBuilder_not(CustomerQueryBuilder_email)}

CustomerNumberBuilders == {CustomerQueryBuilder_created}

CustomerMetadataBuilders == {CustomerQueryBuilder_metadata(k) : k \in Keys}

\* The wrapper under SpecCustomer: its inner builder is the builder of the model.
customer == [builder |-> this]

\* A call on the wrapper, seen on its inner builder.
CustomerCall(name, r) == Call(name, [builder |-> r.builder.builder, thrown |-> r.thrown])

CustomerEquals ==
  \E cfb \in CustomerEqualsBuilders, v \in Nums :
    Room(1, MaxCustomer) /\ CustomerCall("equals", CustomerFieldBuilder_equals(cfb, customer, v))

CustomerContains ==
  \E cfb \in CustomerTextBuilders, v \in Strs :
    Room(1, MaxCustomer)
      /\ CustomerCall("contains", CustomerFieldBuilder_contains(cfb, customer, v))

CustomerGreaterThan ==
  \E cfb \in CustomerNumberBuilders, v \in Nums :
    Room(1, MaxCustomer)
      /\ CustomerCall("greaterThan", CustomerFieldBuilder_greaterThan(cfb, customer, v))

CustomerLessThan ==
  \E cfb \in CustomerNumberBuilders, v \in Nums :
    Room(1, MaxCustomer)
      /\ CustomerCall("lessThan", CustomerFieldBuilder_lessThan(cfb, customer, v))

CustomerGreaterThanOrEqual ==
  \E cfb \in CustomerNumberBuilders, v \in Nums :
    Room(1, MaxCustomer)
      /\ CustomerCall("greaterThanOrEqual",
                      CustomerFieldBuilder_greaterThanOrEqual(cfb, customer, v))

CustomerLessThanOrEqual ==
  \E cfb \in CustomerNumberBuilders, v \in Nums :
    Room(1, MaxCustomer)
      /\ CustomerCall("lessThanOrEqual",
                      CustomerFieldBuilder_lessThanOrEqual(cfb, customer, v))

CustomerBetween ==
  \E cfb \in CustomerNumberBuilders, r \in ChainRanges :
    Room(3, MaxCustomer)
      /\ CustomerCall("between", CustomerFieldBuilder_between(cfb, customer, r[1], r[2]))

CustomerIsNull ==
  \E cfb \in CustomerTextBuilders :
    Room(1, MaxCustomer) /\ CustomerCall("isNull", CustomerFieldBuilder_isNull(cfb, customer))

CustomerMetadataEquals ==
  \E cmb \in CustomerMetadataBuilders, v \in Nums :
    Room(1, MaxCustomer)
      /\ CustomerCall("metadataEquals", CustomerMetadataFieldBuilder_equals(cmb, customer, v))

CustomerMetadataContains ==
  \E cmb \in CustomerMetadataBuilders, v \in Strs :
    Room(1, MaxCustomer)
      /\ CustomerCall("metadataContains",
                      CustomerMetadataFieldBuilder_contains(cmb, customer, v))

CustomerMetadataIsNull ==
  \E cmb \in CustomerMetadataBuilders :
    Room(1, MaxCustomer)
      /\ CustomerCall("metadataIsNull", CustomerMetadataFieldBuilder_isNull(cmb, customer))

CustomerAnd == Room(1, MaxCustomer) /\ CustomerCall("and", CustomerQueryBuilder_and(customer))

CustomerOr == Room(1, MaxCustomer) /\ CustomerCall("or", CustomerQueryBuilder_or(customer))

CustomerReset == CustomerCall("reset", CustomerQueryBuilder_reset(customer))

CustomerBuild ==
  LET r == CustomerQueryBuilder_build(customer) IN
  /\ clauses' = r.builder.builder.clauses
  /\ logicalOperator' = r.builder.builder.logicalOperator
  /\ returned' = r.returned
  /\ call' = "build"
  /\ thrown' = NoError
  /\ UNCHANGED committed

\* Every operation of the customer wrapper.
NextCustomer ==
  \/ CustomerEquals
  \/ CustomerContains
  \/ CustomerGreaterThan
  \/ CustomerLessThan
  \/ CustomerGreaterThanOrEqual
  \/ CustomerLessThanOrEqual
  \/ CustomerBetween
  \/ CustomerIsNull
  \/ CustomerMetadataEquals
  \/ CustomerMetadataContains
  \/ CustomerMetadataIsNull
  \/ CustomerAnd
  \/ CustomerOr
  \/ CustomerReset
  \/ CustomerBuild

SpecCustomer == Init /\ [][NextCustomer]_vars

----------------------------------------------------------------------------
(* charge-templates.ts *)

\* Longest clause sequence explored under SpecTemplates.
MaxTemplate == 5

\* Math.floor(Date.now() / 1000) - days * 24 * 60 * 60 with half-up rounding
\* in place of the floor; now is the value Date.now() returns.
daysAgoTimestamp_round(now, days) == ((now + 500) \div 1000) - days * 24 * 60 * 60

daysAgoTimestamp(now, days) == (now \div 1000) - days * 24 * 60 * 60

chargesByStatusInLastDays(status, now, days) ==
  LET first == FieldBuilder_equals(field(<<"s", "t", "a", "t", "u", "s">>), stripeQuery, StringValue(status))
      anded == and(first.builder)
  IN IF anded.thrown # NoError THEN anded
     ELSE greaterThanOrEqual(field(<<"c", "r", "e", "a", "t", "e", "d">>), anded.builder,
                             NumberValue(daysAgoTimestamp(now, days)))

failedInLastDays(now, days) ==
  chargesByStatusInLastDays(<<"f", "a", "i", "l", "e", "d">>, now, days)

succeededInLastDays(now, days) ==
  chargesByStatusInLastDays(<<"s", "u", "c", "c", "e", "e", "d", "e", "d">>, now, days)

\* highValue() that chains on the builder of the earlier call
highValue_shared(amount) ==
  greaterThanOrEqual(field(<<"a", "m", "o", "u", "n", "t">>), this, NumberValue(amount))

highValue(amount) ==
  greaterThanOrEqual(field(<<"a", "m", "o", "u", "n", "t">>), stripeQuery, NumberValue(amount))

amountBetween(min, max) ==
  between(field(<<"a", "m", "o", "u", "n", "t">>), stripeQuery, NumberValue(min), NumberValue(max))

byCurrency(currency) ==
  FieldBuilder_equals(field(<<"c", "u", "r", "r", "e", "n", "c", "y">>), stripeQuery, StringValue(currency))

\* Inputs: clock readings in milliseconds on both sides of a second boundary.
Nows == {0, 999, 1000, 1999, 1000000000}

Days == {0, 1, 7}

Amounts == {1000}

AmountRanges == {<<1000, 5000>>}

Currencies == {<<"u", "s", "d">>}

\* A template call: the builder of the model becomes the builder returned.
TemplateCall(name, r) ==
  /\ clauses' = r.builder.clauses
  /\ logicalOperator' = r.builder.logicalOperator
  /\ thrown' = r.thrown
  /\ call' = name
  /\ returned' = <<>>
  /\ committed' = IF name \in {"failedInLastDays", "succeededInLastDays", "amountBetween"}
                     /\ r.thrown = NoError
                  THEN {"AND"} ELSE {}

FailedInLastDays ==
  \E now \in Nows, days \in Days : TemplateCall("failedInLastDays", failedInLastDays(now, days))

SucceededInLastDays ==
  \E now \in Nows, days \in Days :
    TemplateCall("succeededInLastDays", succeededInLastDays(now, days))

HighValue == \E amount \in Amounts : TemplateCall("highValue", highValue(amount))

AmountBetween ==
  \E r \in AmountRanges : TemplateCall("amountBetween", amountBetween(r[1], r[2]))

ByCurrency == \E currency \in Currencies : TemplateCall("byCurrency", byCurrency(currency))

\* The templates, and the chaining that charge-templates.test.ts does on the
\* builders they return.
NextTemplates ==
  \/ FailedInLastDays
  \/ SucceededInLastDays
  \/ HighValue
  \/ AmountBetween
  \/ ByCurrency
  \/ And(MaxTemplate)
  \/ Or(MaxTemplate)
  \/ GreaterThan(MaxTemplate, {field(<<"a", "m", "o", "u", "n", "t">>)}, {NumberValue(5000)})
  \/ Build

SpecTemplates == Init /\ [][NextTemplates]_vars

----------------------------------------------------------------------------
(* Reading the output of build() back *)

\* String.prototype.split(sep) for a one-character separator.
RECURSIVE split(_, _)
split(s, sep) ==
  IF \E i \in 1..Len(s) : s[i] = sep
  THEN LET i == CHOOSE k \in 1..Len(s) : s[k] = sep /\ \A j \in 1..(k - 1) : s[j] # sep
       IN <<SubSeq(s, 1, i - 1)>> \o split(SubSeq(s, i + 1, Len(s)), sep)
  ELSE <<s>>

\* The space-separated tokens of a query string.
tokensOf(query) == IF query = <<>> THEN <<>> ELSE split(query, " ")

IsConnective(tok) == tok \in {Chars("AND"), Chars("OR")}

\* clause := ["-"] field op value, with a non-empty field before the operator
IsClauseToken(tok) ==
  /\ ~IsConnective(tok)
  /\ \E i \in 2..Len(tok) : tok[i] \in {":", "~", ">", "<"} /\ tok[1] \notin {":", "~", ">", "<"}

\* query := (clause (" " connective " " clause)*)?
MatchesGrammar(query) ==
  LET toks == tokensOf(query) IN
  \/ query = <<>>
  \/ /\ Len(toks) % 2 = 1
     /\ \A i \in 1..Len(toks) :
          IF i % 2 = 1 THEN IsClauseToken(toks[i]) ELSE IsConnective(toks[i])

\* What build() returns in the current state.
Query == build(this).returned

IsLogical(i) == clauses[i].type = "logical"

IsField(i) == clauses[i].type = "field"

RECURSIVE dropLeadingLogical(_)
dropLeadingLogical(cs) ==
  IF cs # <<>> /\ Head(cs).type = "logical" THEN dropLeadingLogical(Tail(cs)) ELSE cs

----------------------------------------------------------------------------
(* Claims *)

\* C1: with no reset() in between, once and() has returned normally every
\* later or() throws the mixing error, and once or() has returned normally
\* every later and() throws it.
C1_MixingRejected ==
  [][/\ ("AND" \in committed /\ call' = "or") => thrown' = MixError
     /\ ("OR" \in committed /\ call' = "and") => thrown' = MixError]_vars

\* an or() rejected although field clauses were appended after the and()
C1_Witness ==
  /\ call = "or" /\ thrown = MixError /\ "AND" \in committed
  /\ \E i, j \in 1..Len(clauses) : i < j /\ IsLogical(i) /\ IsField(j)

\* C2: and() against an OR lock and or() against an AND lock throw and leave
\* the clause sequence, the lock and the result of build() as they were.
C2_RejectedConnectiveLeavesBuilder ==
  [][(\/ logicalOperator = "OR" /\ call' = "and"
      \/ logicalOperator = "AND" /\ call' = "or")
     => /\ thrown' = MixError
        /\ clauses' = clauses
        /\ logicalOperator' = logicalOperator
        /\ Query' = Query]_vars

C2_Witness ==
  /\ call = "and" /\ thrown = MixError /\ logicalOperator = "OR"
  /\ \E i \in 1..Len(clauses) : IsField(i)

\* C3: every call that throws leaves the clause sequence and the lock as
\* they were before the call.
C3_ThrowLeavesBuilder ==
  [][thrown' # NoError => clauses' = clauses /\ logicalOperator' = logicalOperator]_vars

\* C4: between() on an OR-locked builder throws the mixing error.
C4_BetweenOnOrLock ==
  [][(logicalOperator = "OR" /\ call' = "between") => thrown' = MixError]_vars

C4_Witness ==
  /\ call = "between" /\ thrown = MixError /\ logicalOperator = "OR"
  /\ \E i \in 1..Len(clauses) : IsField(i) /\ clauses[i].operator = ":"

\* C5: what build() returns is empty or clause tokens separated by exactly
\* one connective token each.
C5_OutputGrammar == MatchesGrammar(Query)

\* C6: what build() returns never holds both an AND token and an OR token.
C6_OneConnective ==
  LET toks == tokensOf(Query) IN
  ~(/\ \E i \in 1..Len(toks) : toks[i] = Chars("AND")
    /\ \E i \in 1..Len(toks) : toks[i] = Chars("OR"))

\* an and() rejected on a builder whose query already shows an OR token
C6_Witness ==
  /\ call = "and" /\ thrown = MixError
  /\ \E i \in 1..Len(tokensOf(Query)) : tokensOf(Query)[i] = Chars("OR")

\* C7: contains(value), plain or metadata, negated or not, throws the
\* substring error and appends nothing when value.length < 3, and appends
\* one clause with operator ~ otherwise.
C7_ContainsLength ==
  [][/\ \A fb \in FieldBuilders, v \in Strs :
          (call' = "contains" /\ <<clauses', thrown'>> =
             <<FieldBuilder_contains(fb, this, v).builder.clauses,
               FieldBuilder_contains(fb, this, v).thrown>>)
          => IF Len(v.s) < 3
             THEN thrown' = SubstringError /\ clauses' = clauses
             ELSE /\ thrown' = NoError
                  /\ clauses' = Append(clauses,
                       [type |-> "field", field |-> fb.field, operator |-> "~",
                        value |-> v, negated |-> fb.negated])
     /\ \A mb \in MetadataFieldBuilders, v \in Strs :
          (call' = "metadataContains" /\ <<clauses', thrown'>> =
             <<MetadataFieldBuilder_contains(mb, this, v).builder.clauses,
               MetadataFieldBuilder_contains(mb, this, v).thrown>>)
          => IF Len(v.s) < 3
             THEN thrown' = SubstringError /\ clauses' = clauses
             ELSE /\ thrown' = NoError
                  /\ Len(clauses') = Len(clauses) + 1
                  /\ SubSeq(clauses', 1, Len(clauses)) = clauses
                  /\ clauses'[Len(clauses')].operator = "~"
                  /\ clauses'[Len(clauses')].value = v
                  /\ clauses'[Len(clauses')].negated = mb.negated]_vars

\* a short contains() rejected on a builder that holds an accepted one
C7_Witness ==
  /\ call = "metadataContains" /\ thrown = SubstringError
  /\ \E i \in 1..Len(clauses) : IsField(i) /\ clauses[i].operator = "~"

\* C8: build() leaves the clause sequence and the lock unchanged, and a
\* build() right after a build() returns the same string.
C8_BuildIsPure ==
  [][call' = "build"
     => /\ clauses' = clauses
        /\ logicalOperator' = logicalOperator
        /\ call = "build" => returned' = returned]_vars

\* build() called on a builder that ends in a connective
C8_Witness ==
  /\ call = "build" /\ returned # <<>>
  /\ Len(clauses) > 1 /\ IsLogical(Len(clauses))

\* C9: reset() leaves an empty clause sequence and a null lock, so that
\* build() returns the empty string and the next and() or or() is accepted.
C9_ResetClearsBoth ==
  [][/\ call' = "reset"
          => clauses' = <<>> /\ logicalOperator' = null /\ Query' = <<>>
     /\ (call = "reset" /\ call' \in {"and", "or"}) => thrown' = NoError]_vars

\* or() accepted right after a reset()
C9_Witness ==
  /\ call = "reset" /\ thrown = NoError /\ clauses = <<>> /\ logicalOperator = null
  /\ ENABLED (Or(MaxChain) /\ thrown' = NoError)

\* C10: build() returns what it returns for the same clause sequence without
\* its leading connectives, and still renders a connective issued between
\* two field clauses.
C10_LeadingErasure ==
  /\ Query = build([this EXCEPT !.clauses = dropLeadingLogical(clauses)]).returned
  /\ (\E i, j, k \in 1..Len(clauses) : i < j /\ j < k /\ IsField(i) /\ IsLogical(j) /\ IsField(k))
       => \E n \in 1..Len(tokensOf(Query)) : IsConnective(tokensOf(Query)[n])

\* two leading connectives, then field, connective, field
C10_Witness ==
  /\ Len(clauses) >= 5
  /\ IsLogical(1) /\ IsLogical(2) /\ IsField(3) /\ IsLogical(4) /\ IsField(5)

\* The indices of the field clauses of cs, in order.
fieldIndices(cs) ==
  LET idx == [i \in 1..Len(cs) |-> i]
      IsFieldAt(i) == cs[i].type = "field"
  IN SelectSeq(idx, IsFieldAt)

\* The positions of the clause tokens among toks, in order.
clausePositions(toks) ==
  LET idx == [i \in 1..Len(toks) |-> i]
      IsClauseAt(i) == ~IsConnective(toks[i])
  IN SelectSeq(idx, IsClauseAt)

\* C11: a run of one or more and() (or or()) clauses between two field
\* clauses renders as exactly one connective token between the two field
\* tokens.
C11_ConsecutiveCollapse ==
  LET toks == tokensOf(Query)
      fi == fieldIndices(clauses)
      cp == clausePositions(toks)
  IN /\ Len(cp) = Len(fi)
     /\ \A m \in 1..(Len(fi) - 1) :
          fi[m + 1] > fi[m] + 1
            => /\ cp[m + 1] = cp[m] + 2
               /\ toks[cp[m] + 1] = Chars(clauses[fi[m] + 1].operator)

\* field, connective, connective, field
C11_Witness ==
  \E i \in 1..(Len(clauses) - 3) :
    IsField(i) /\ IsLogical(i + 1) /\ IsLogical(i + 2) /\ IsField(i + 3)

\* C12: an and() or or() that returns normally does not change what build()
\* returns, and what build() returns never ends with a connective token.
C12_TrailingErasure ==
  /\ [][(call' \in {"and", "or"} /\ thrown' = NoError) => Query' = Query]_vars
  /\ [](LET toks == tokensOf(Query) IN toks # <<>> => ~IsConnective(toks[Len(toks)]))

\* a second trailing and() after a field clause
C12_Witness ==
  /\ call = "and" /\ thrown = NoError /\ Query # <<>>
  /\ Len(clauses) >= 3
  /\ IsLogical(Len(clauses)) /\ IsLogical(Len(clauses) - 1) /\ IsField(Len(clauses) - 2)

\* C13: build() returns the empty string when the clause sequence is empty
\* or holds only logical clauses.
C13_OnlyLogicalIsEmpty ==
  (\A i \in 1..Len(clauses) : IsLogical(i)) => Query = <<>>

\* build() called on two or more logical clauses and nothing else
C13_Witness ==
  /\ call = "build" /\ returned = <<>>
  /\ Len(clauses) >= 2 /\ \A i \in 1..Len(clauses) : IsLogical(i)

\* C14: build() emits one token for each field clause, in the order of the
\* clauses, each token being "-" when negated, then field, operator and
\* formatValue(value); the tokens are separated by single spaces.
C14_FieldTokensInOrder ==
  LET toks == tokensOf(Query)
      fi == fieldIndices(clauses)
      cp == clausePositions(toks)
  IN /\ Len(cp) = Len(fi)
     /\ \A m \in 1..Len(fi) :
          LET c == clauses[fi[m]] IN
          toks[cp[m]] = (IF c.negated THEN <<"-">> ELSE <<>>)
                          \o c.field \o Chars(c.operator) \o formatValue(c.value)

\* build() called on a negated clause followed by a clause with a string value
C14_Witness ==
  /\ call = "build" /\ returned = Query
  /\ \E i, j \in 1..Len(clauses) :
       /\ i < j /\ IsField(i) /\ IsField(j)
       /\ clauses[i].negated /\ clauses[j].value.type = "string"

\* The operator each terminal operation is meant to append.
OperatorOf(name) ==
  CASE name \in {"equals", "isNull", "metadataEquals", "metadataIsNull"} -> ":"
    [] name \in {"contains", "metadataContains"} -> "~"
    [] name = "greaterThan" -> ">"
    [] name = "lessThan" -> "<"
    [] name = "greaterThanOrEqual" -> ">="
    [] name = "lessThanOrEqual" -> "<="

Terminals ==
  {"equals", "isNull", "metadataEquals", "metadataIsNull", "contains", "metadataContains",
   "greaterThan", "lessThan", "greaterThanOrEqual", "lessThanOrEqual"}

LastClause(b) == b.clauses[Len(b.clauses)]

\* C15: every terminal operation appends a clause with its own operator,
\* isNull() with value null, and isNull() and equals(null) on the same field
\* append the same clause, which renders as field:null.
C15_TerminalOperators ==
  [][/\ (call' \in Terminals /\ thrown' = NoError)
          => /\ Len(clauses') = Len(clauses) + 1
             /\ clauses'[Len(clauses')].operator = OperatorOf(call')
             /\ call' \in {"isNull", "metadataIsNull"}
                  => clauses'[Len(clauses')].value = NullValue
     /\ \A fb \in FieldBuilders :
          /\ FieldBuilder_isNull(fb, this) = FieldBuilder_equals(fb, this, NullValue)
          /\ fieldToken(LastClause(FieldBuilder_isNull(fb, this).builder))
               = (IF fb.negated THEN <<"-">> ELSE <<>>)
                   \o fb.field \o <<":", "n", "u", "l", "l">>
     /\ \A mb \in MetadataFieldBuilders :
          MetadataFieldBuilder_isNull(mb, this)
            = MetadataFieldBuilder_equals(mb, this, NullValue)]_vars

\* isNull() called on a builder that holds a >= clause
C15_Witness ==
  /\ call = "isNull" /\ thrown = NoError
  /\ LastClause(this).operator = ":" /\ LastClause(this).value = NullValue
  /\ \E i \in 1..Len(clauses) : IsField(i) /\ clauses[i].operator = ">="

\* The clause b is the clause a negated, and renders as "-" and a's token.
NegationOf(a, b) ==
  /\ ~a.negated /\ b.negated
  /\ b.field = a.field /\ b.operator = a.operator /\ b.value = a.value
  /\ fieldToken(b) = <<"-">> \o fieldToken(a)

\* C16: for every field or key and every terminal operation, the clause
\* appended through not()/notMetadata() has the field, operator and value of
\* the clause appended through field()/metadata(), and its token is that
\* clause's token after a "-".
C16_NegationOnlyPrefix ==
  /\ \A f \in Fields :
       LET Pair(p, n) == NegationOf(LastClause(p.builder), LastClause(n.builder)) IN
       /\ \A v \in EqualsValues :
            Pair(FieldBuilder_equals(field(f), this, v), FieldBuilder_equals(not(f), this, v))
       /\ \A v \in {x \in Strs : Len(x.s) >= 3} :
            Pair(FieldBuilder_contains(field(f), this, v),
                 FieldBuilder_contains(not(f), this, v))
       /\ \A v \in Nums :
            /\ Pair(greaterThan(field(f), this, v), greaterThan(not(f), this, v))
            /\ Pair(lessThan(field(f), this, v), lessThan(not(f), this, v))
            /\ Pair(greaterThanOrEqual(field(f), this, v),
                    greaterThanOrEqual(not(f), this, v))
            /\ Pair(lessThanOrEqual(field(f), this, v), lessThanOrEqual(not(f), this, v))
       /\ Pair(FieldBuilder_isNull(field(f), this), FieldBuilder_isNull(not(f), this))
  /\ \A k \in Keys :
       LET Pair(p, n) == NegationOf(LastClause(p.builder), LastClause(n.builder)) IN
       /\ \A v \in EqualsValues :
            Pair(MetadataFieldBuilder_equals(metadata(k), this, v),
                 MetadataFieldBuilder_equals(notMetadata(k), this, v))
       /\ \A v \in {x \in Strs : Len(x.s) >= 3} :
            Pair(MetadataFieldBuilder_contains(metadata(k), this, v),
                 MetadataFieldBuilder_contains(notMetadata(k), this, v))
       /\ Pair(MetadataFieldBuilder_isNull(metadata(k), this),
               MetadataFieldBuilder_isNull(notMetadata(k), this))
  /\ \A i, j \in 1..Len(clauses) :
       (/\ IsField(i) /\ IsField(j) /\ ~clauses[i].negated
        /\ clauses[j] = [clauses[i] EXCEPT !.negated = TRUE])
         => NegationOf(clauses[i], clauses[j])

\* a metadata clause and its negation in one builder, rendered by build()
C16_Witness ==
  /\ call = "build"
  /\ \E i, j \in 1..Len(clauses) :
       /\ IsField(i) /\ IsField(j) /\ ~clauses[i].negated
       /\ clauses[i].operator = "~"
       /\ clauses[j] = [clauses[i] EXCEPT !.negated = TRUE]

AndClause == [type |-> "logical", operator |-> "AND"]

SpaceAndSpace == <<" ", "A", "N", "D", " ">>

\* C17: between(min, max) on a builder whose lock is not OR appends f>=min,
\* AND, f<=max in this order; on an empty builder build() then returns
\* `f>=min AND f<=max`, and after a field clause and and() it returns that
\* clause followed by ` AND f>=min AND f<=max`.
C17_BetweenAppends ==
  [][(logicalOperator # "OR" /\ call' = "between")
     => /\ thrown' = NoError
        /\ \E fb \in ChainFieldBuilders, r \in ChainRanges :
             LET prefix == IF fb.negated THEN <<"-">> ELSE <<>>
                 ge == [type |-> "field", field |-> fb.field, operator |-> ">=",
                        value |-> r[1], negated |-> fb.negated]
                 le == [type |-> "field", field |-> fb.field, operator |-> "<=",
                        value |-> r[2], negated |-> fb.negated]
                 range == prefix \o fb.field \o <<">", "=">> \o toString(r[1].n)
                            \o SpaceAndSpace
                            \o prefix \o fb.field \o <<"<", "=">> \o toString(r[2].n)
             IN /\ clauses' = clauses \o <<ge, AndClause, le>>
                /\ clauses = <<>> => Query' = range
                /\ (Len(clauses) = 2 /\ IsField(1) /\ clauses[2] = AndClause)
                     => Query' = fieldToken(clauses[1]) \o SpaceAndSpace \o range]_vars

\* between() after a field clause and and()
C17_Witness ==
  /\ call = "between" /\ thrown = NoError /\ logicalOperator = "AND"
  /\ Len(clauses) = 5 /\ IsField(1) /\ clauses[2] = AndClause
  /\ clauses[3].operator = ">=" /\ clauses[4] = AndClause /\ clauses[5].operator = "<="

\* raw with each backslash doubled and each double quote preceded by one
\* backslash, character by character
RECURSIVE escapedChars(_)
escapedChars(raw) ==
  IF raw = <<>> THEN <<>>
  ELSE (IF Head(raw) = "\\" THEN <<"\\", "\\">>
        ELSE IF Head(raw) = "\"" THEN <<"\\", "\"">>
        ELSE <<Head(raw)>>) \o escapedChars(Tail(raw))

Quoted(raw) == <<"\"">> \o escapedChars(raw) \o <<"\"">>

\* C18: escapeAndQuote(raw), also as escapeStringValue and escapeMetadataKey,
\* is a double quote, raw with every backslash doubled and every double quote
\* preceded by one backslash, and a double quote; one double quote yields
\* quote, backslash, quote, quote.
C18_EscapeAndQuote ==
  \A i \in 1..Len(clauses) :
    (IsField(i) /\ clauses[i].value.type = "string")
      => LET c == clauses[i]
             raw == c.value.s
         IN /\ escapeAndQuote(raw) = Quoted(raw)
            /\ escapeStringValue(raw) = Quoted(raw)
            /\ escapeMetadataKey(raw) = Quoted(raw)
            /\ raw = <<"\"">> => escapeAndQuote(raw) = <<"\"", "\\", "\"", "\"">>
            /\ fieldToken(c) = (IF c.negated THEN <<"-">> ELSE <<>>)
                                 \o c.field \o Chars(c.operator) \o Quoted(raw)

\* build() on a value made of a double quote and a backslash
C18_Witness ==
  /\ call = "build"
  /\ clauses = <<[type |-> "field", field |-> <<"a">>, operator |-> ":",
                  value |-> StringValue(<<"\"", "\\">>), negated |-> FALSE]>>
  /\ returned = <<"a", ":", "\"", "\\", "\"", "\\", "\\", "\"">>

DigitValue(ch) == CHOOSE d \in 0..9 : Digit(d) = ch

IsDigit(ch) == \E d \in 0..9 : Digit(d) = ch

\* The number a sequence of decimal digits denotes.
RECURSIVE parseDigits(_)
parseDigits(s) ==
  IF s = <<>> THEN 0
  ELSE parseDigits(SubSeq(s, 1, Len(s) - 1)) * 10 + DigitValue(s[Len(s)])

\* t is the base-10 form of n: an optional minus sign and digits, no leading zero
IsDecimalOf(t, n) ==
  LET ds == IF n < 0 THEN Tail(t) ELSE t IN
  /\ t # <<>> /\ ds # <<>>
  /\ n < 0 => Head(t) = "-"
  /\ \A k \in 1..Len(ds) : IsDigit(ds[k])
  /\ Len(ds) > 1 => ds[1] # "0"
  /\ parseDigits(ds) = (IF n < 0 THEN 0 - n ELSE n)

\* C19: formatValue maps null to the word null, a number to its base-10
\* form without quotes and a string to escapeAndQuote(string), so that a
\* string value never renders as the null value or as a number does.
C19_FormatValue ==
  \A i \in 1..Len(clauses) :
    IsField(i)
      => LET v == clauses[i].value IN
         /\ v.type = "null" => formatValue(v) = <<"n", "u", "l", "l">>
         /\ v.type = "number" => IsDecimalOf(formatValue(v), v.n)
         /\ v.type = "string"
              => /\ formatValue(v) = Quoted(v.s)
                 /\ formatValue(v) # formatValue(NullValue)
                 /\ \A n \in EscNumbers : formatValue(v) # formatValue(n)

\* build() on the string value "1000"
C19_Witness ==
  /\ call = "build"
  /\ Len(clauses) = 1 /\ clauses[1].value = StringValue(<<"1", "0", "0", "0">>)
  /\ returned = <<"a", ":", "\"", "1", "0", "0", "0", "\"">>

MetadataOpen == <<"m", "e", "t", "a", "d", "a", "t", "a", "[">>

\* C20: a clause appended through metadata(key) or notMetadata(key) stores
\* metadata[ escapeAndQuote(key) ] as its field, the key escaped as a string
\* value is, and build() renders the stored field as it is.
C20_MetadataField ==
  [][\A mb \in EscMetadataBuilders :
       \A r \in {MetadataFieldBuilder_equals(mb, this, StringValue(<<"v">>)),
                 MetadataFieldBuilder_contains(mb, this, StringValue(<<"a", "b", "c">>)),
                 MetadataFieldBuilder_isNull(mb, this)} :
         (/\ call' \in {"metadataEquals", "metadataContains", "metadataIsNull"}
          /\ clauses' = r.builder.clauses)
           => LET c == clauses'[Len(clauses')] IN
              /\ c.field = MetadataOpen \o escapeStringValue(mb.key) \o <<"]">>
              /\ c.field = MetadataOpen \o Quoted(mb.key) \o <<"]">>
              /\ c.negated = mb.negated
              /\ clauses = <<>>
                   => Query' = (IF mb.negated THEN <<"-">> ELSE <<>>)
                                 \o MetadataOpen \o Quoted(mb.key) \o <<"]">>
                                 \o Chars(c.operator) \o formatValue(c.value)]_vars

\* a clause appended through the key made of one double quote
C20_Witness ==
  /\ call = "metadataEquals" /\ thrown = NoError
  /\ Len(clauses) = 1
  /\ clauses[1].field = MetadataOpen \o <<"\"", "\\", "\"", "\"">> \o <<"]">>

PlainOf(cfb) ==
  CHOOSE fb \in {field(cfb.fieldName), not(cfb.fieldName)} : fb.negated = cfb.negated

\* metadata(key) or notMetadata(key)
PlainMetadataOf(cmb) ==
  CHOOSE mb \in {metadata(cmb.key), notMetadata(cmb.key)} : mb.negated = cmb.negated

\* When the step is the wrapper call whose result is r: it leaves and throws
\* what the plain call with result p does, and build() through the wrapper
\* then returns what build() on the plain builder returns.
Same(r, p) ==
  (<<clauses', logicalOperator', thrown'>> =
     <<r.builder.builder.clauses, r.builder.builder.logicalOperator, r.thrown>>)
  => /\ thrown' = p.thrown
     /\ clauses' = p.builder.clauses
     /\ logicalOperator' = p.builder.logicalOperator
     /\ CustomerQueryBuilder_build(r.builder).returned = build(p.builder).returned

\* C22: every operation of the customer wrapper leaves its inner builder, and
\* raises or returns, exactly as the corresponding field/not/metadata/and/or/
\* reset/build call on a plain SearchQueryBuilder in the same state; both
\* start from stripeQuery(), so equal steps give equal outcomes for every
\* sequence of operations.
C22_CustomerAddsNothing ==
  [][/\ call' = "equals" =>
          \A cfb \in CustomerEqualsBuilders, v \in Nums :
            Same(CustomerFieldBuilder_equals(cfb, customer, v),
                 FieldBuilder_equals(PlainOf(cfb), this, v))
     /\ call' = "contains" =>
          \A cfb \in CustomerTextBuilders, v \in Strs :
            Same(CustomerFieldBuilder_contains(cfb, customer, v),
                 FieldBuilder_contains(PlainOf(cfb), this, v))
     /\ call' = "greaterThan" =>
          \A cfb \in CustomerNumberBuilders, v \in Nums :
            Same(CustomerFieldBuilder_greaterThan(cfb, customer, v),
                 greaterThan(PlainOf(cfb), this, v))
     /\ call' = "lessThan" =>
          \A cfb \in CustomerNumberBuilders, v \in Nums :
            Same(CustomerFieldBuilder_lessThan(cfb, customer, v),
                 lessThan(PlainOf(cfb), this, v))
     /\ call' = "greaterThanOrEqual" =>
          \A cfb \in CustomerNumberBuilders, v \in Nums :
            Same(CustomerFieldBuilder_greaterThanOrEqual(cfb, customer, v),
                 greaterThanOrEqual(PlainOf(cfb), this, v))
     /\ call' = "lessThanOrEqual" =>
          \A cfb \in CustomerNumberBuilders, v \in Nums :
            Same(CustomerFieldBuilder_lessThanOrEqual(cfb, customer, v),
                 lessThanOrEqual(PlainOf(cfb), this, v))
     /\ call' = "between" =>
          \A cfb \in CustomerNumberBuilders, r \in ChainRanges :
            Same(CustomerFieldBuilder_between(cfb, customer, r[1], r[2]),
                 between(PlainOf(cfb), this, r[1], r[2]))
     /\ call' = "isNull" =>
          \A cfb \in CustomerTextBuilders :
            Same(CustomerFieldBuilder_isNull(cfb, customer),
                 FieldBuilder_isNull(PlainOf(cfb), this))
     /\ call' = "metadataEquals" =>
          \A cmb \in CustomerMetadataBuilders, v \in Nums :
            Same(CustomerMetadataFieldBuilder_equals(cmb, customer, v),
                 MetadataFieldBuilder_equals(PlainMetadataOf(cmb), this, v))
     /\ call' = "metadataContains" =>
          \A cmb \in CustomerMetadataBuilders, v \in Strs :
            Same(CustomerMetadataFieldBuilder_contains(cmb, customer, v),
                 MetadataFieldBuilder_contains(PlainMetadataOf(cmb), this, v))
     /\ call' = "metadataIsNull" =>
          \A cmb \in CustomerMetadataBuilders :
            Same(CustomerMetadataFieldBuilder_isNull(cmb, customer),
                 MetadataFieldBuilder_isNull(PlainMetadataOf(cmb), this))
     /\ call' = "and" => Same(CustomerQueryBuilder_and(customer), and(this))
     /\ call' = "or" => Same(CustomerQueryBuilder_or(customer), or(this))
     /\ call' = "reset" => Same(CustomerQueryBuilder_reset(customer), reset(this))
     /\ call' = "build" =>
          /\ returned' = build(this).returned
          /\ clauses' = build(this).builder.clauses
          /\ logicalOperator' = build(this).builder.logicalOperator]_vars

\* or() through the wrapper rejected after email().not().equals() and and()
C22_Witness ==
  /\ call = "or" /\ thrown = MixError
  /\ Len(clauses) >= 2
  /\ IsField(1) /\ clauses[1].negated /\ clauses[1].field = <<"e", "m", "a", "i", "l">>
  /\ IsLogical(2)

\* The second the clock reading now falls in, less days days of 86400 seconds.
SecondsBefore(now, days) == (now - (now % 1000)) \div 1000 - days * 86400

\* status:"<status>" AND created>=<t>
StatusSince(status, t) ==
  <<"s", "t", "a", "t", "u", "s", ":", "\"">> \o status \o <<"\"", " ", "A", "N", "D", " ", "c", "r", "e", "a", "t", "e", "d", ">", "=">> \o toString(t)

\* C23: failedInLastDays(days) and succeededInLastDays(days) return a builder
\* that renders status:"failed" (status:"succeeded") AND created>=T with
\* T = floor(now / 1000) - days * 86400, and a further and() and clause on
\* it extend the rendering with " AND <clause>".
C23_StatusInLastDays ==
  /\ [][\A now \in Nows, days \in Days :
          /\ (/\ call' = "failedInLastDays"
              /\ clauses' = failedInLastDays(now, days).builder.clauses)
               => /\ thrown' = NoError
                  /\ build(failedInLastDays(now, days).builder).returned
                       = StatusSince(<<"f", "a", "i", "l", "e", "d">>, SecondsBefore(now, days))
                  /\ and(failedInLastDays(now, days).builder).thrown = NoError
          /\ (/\ call' = "succeededInLastDays"
              /\ clauses' = succeededInLastDays(now, days).builder.clauses)
               => /\ thrown' = NoError
                  /\ build(succeededInLastDays(now, days).builder).returned
                       = StatusSince(<<"s", "u", "c", "c", "e", "e", "d", "e", "d">>, SecondsBefore(now, days))
                  /\ and(succeededInLastDays(now, days).builder).thrown = NoError]_vars
  /\ [](/\ (call = "and" /\ Len(clauses) = 4 /\ IsField(1) /\ clauses[1].field = <<"s", "t", "a", "t", "u", "s">>)
             => thrown = NoError
        /\ (/\ call = "greaterThan" /\ Len(clauses) = 5 /\ IsLogical(4) /\ IsField(1)
            /\ clauses[1].field = <<"s", "t", "a", "t", "u", "s">>)
             => Query = build([this EXCEPT !.clauses = SubSeq(clauses, 1, 3)]).returned
                          \o <<" ", "A", "N", "D", " ", "a", "m", "o", "u", "n", "t", ">", "5", "0", "0", "0">>)

\* failedInLastDays(1) one day and 1.999 seconds after the epoch, then and()
\* and field("amount").greaterThan(5000)
C23_Witness ==
  /\ call = "greaterThan" /\ thrown = NoError
  /\ Len(clauses) = 5
  /\ clauses[1].value = StringValue(<<"f", "a", "i", "l", "e", "d">>)
  /\ clauses[3].value = NumberValue(0 - 86399)
  /\ Query = <<"s", "t", "a", "t", "u", "s", ":", "\"", "f", "a", "i", "l", "e", "d", "\"", " ", "A", "N", "D", " ", "c", "r", "e", "a", "t", "e", "d", ">", "=", "-", "8", "6", "3", "9", "9", " ", "A", "N", "D", " ", "a", "m", "o", "u", "n", "t", ">", "5", "0", "0", "0">>

\* The templates that chain an and() or a between(), and those that do not.
LockingTemplates == {"failedInLastDays", "succeededInLastDays", "amountBetween"}

OpenTemplates == {"highValue", "byCurrency"}

\* C30: failedInLastDays, succeededInLastDays and amountBetween return a
\* builder already locked to AND, on which or() throws the mixing error;
\* highValue and byCurrency return a builder with a null lock, on which and()
\* and or() are both accepted; and what a template returns holds the clauses
\* of that call only, whatever builder the calls before it left.
C30_TemplateLocks ==
  [][/\ call' \in LockingTemplates
          => /\ thrown' = NoError
             /\ logicalOperator' = "AND"
             /\ Len(clauses') = 3
             /\ clauses'[1].type = "field" /\ clauses'[2].type = "logical"
             /\ clauses'[3].type = "field"
     /\ call' \in OpenTemplates
          => /\ thrown' = NoError
             /\ logicalOperator' = null
             /\ Len(clauses') = 1
             /\ clauses'[1].type = "field"
     /\ (call \in LockingTemplates /\ call' = "or")
          => thrown' = MixError /\ clauses' = clauses
     /\ (call \in LockingTemplates /\ call' = "and")
          => thrown' = NoError
     /\ (call \in OpenTemplates /\ call' \in {"and", "or"})
          => thrown' = NoError /\ logicalOperator' = (IF call' = "and" THEN "AND" ELSE "OR")]_vars

\* or() rejected on the builder amountBetween(1000, 5000) returned
C30_Witness ==
  /\ call = "or" /\ thrown = MixError
  /\ Len(clauses) = 3 /\ IsField(1) /\ IsField(3)
  /\ clauses[1].field = <<"a", "m", "o", "u", "n", "t">>
  /\ clauses[1].operator = ">=" /\ clauses[3].operator = "<="

\* C24: and() on a null or AND lock returns normally, sets the lock to AND
\* and appends exactly one AND clause at the end of the clause sequence,
\* whatever the sequence holds; or() does the same with OR on a null or OR
\* lock.
C24_ConnectiveAppends ==
  [][/\ (call' = "and" /\ logicalOperator # "OR")
          => /\ thrown' = NoError
             /\ logicalOperator' = "AND"
             /\ clauses' = clauses \o <<[type |-> "logical", operator |-> "AND"]>>
     /\ (call' = "or" /\ logicalOperator # "AND")
          => /\ thrown' = NoError
             /\ logicalOperator' = "OR"
             /\ clauses' = clauses \o <<[type |-> "logical", operator |-> "OR"]>>]_vars

\* and() on an empty builder, and() again, a field clause, and() twice more
C24_Witness ==
  /\ call = "and" /\ thrown = NoError /\ logicalOperator = "AND"
  /\ Len(clauses) = 5
  /\ IsLogical(1) /\ IsLogical(2) /\ IsField(3) /\ IsLogical(4) /\ IsLogical(5)

\* C25: each terminal operation other than between that returns normally
\* appends exactly one field clause at the end of the clause sequence and
\* leaves the lock and the clauses already there unchanged; field(), not(),
\* metadata() and notMetadata() without a terminal call change neither.
C25_TerminalFrame ==
  [][/\ (call' \in Terminals /\ thrown' = NoError)
          => /\ Len(clauses') = Len(clauses) + 1
             /\ \A i \in 1..Len(clauses) : clauses'[i] = clauses[i]
             /\ clauses'[Len(clauses')].type = "field"
             /\ logicalOperator' = logicalOperator
     /\ call' \in {"field", "not", "metadata", "notMetadata"}
          => /\ thrown' = NoError
             /\ clauses' = clauses
             /\ logicalOperator' = logicalOperator]_vars

\* a sub-builder opened and dropped on an OR-locked builder that ends in a
\* field clause appended after the or()
C25_Witness ==
  /\ call \in {"field", "not", "metadata", "notMetadata"}
  /\ logicalOperator = "OR"
  /\ Len(clauses) = 2 /\ IsLogical(1) /\ IsField(2)

\* C26: between() that returns normally on a builder whose lock is null
\* leaves the lock AND; an AND lock stays until reset(), and every or() on
\* an AND-locked builder throws the mixing error, so that after such a
\* between() every or() throws until reset() although and() was never called.
C26_BetweenLocks ==
  [][/\ (call' = "between" /\ logicalOperator = null /\ thrown' = NoError)
          => logicalOperator' = "AND"
     /\ (logicalOperator = "AND" /\ call' # "reset")
          => logicalOperator' = "AND"
     /\ (logicalOperator = "AND" /\ call' = "or")
          => thrown' = MixError]_vars

\* or() rejected on a builder that holds the three clauses of one between()
\* and nothing else
C26_Witness ==
  /\ call = "or" /\ thrown = MixError
  /\ Len(clauses) = 3 /\ IsField(1) /\ IsLogical(2) /\ IsField(3)
  /\ clauses[1].operator = ">=" /\ clauses[3].operator = "<="
  /\ clauses[1].field = <<"a">> /\ ~clauses[1].negated

\* C27: the lock is null exactly when the clause sequence holds no logical
\* clause, and every logical clause of the sequence has the lock as its
\* operator, so the sequence never holds both an AND and an OR clause.
C27_LockMatchesClauses ==
  /\ logicalOperator = null <=> ~\E i \in 1..Len(clauses) : IsLogical(i)
  /\ \A i \in 1..Len(clauses) : IsLogical(i) => clauses[i].operator = logicalOperator
  /\ ~\E i, j \in 1..Len(clauses) :
        /\ IsLogical(i) /\ IsLogical(j)
        /\ clauses[i].operator = "AND" /\ clauses[j].operator = "OR"

\* between() rejected on an OR-locked builder, its first clause left behind
\* after two OR clauses
C27_Witness ==
  /\ call = "between" /\ thrown = MixError /\ logicalOperator = "OR"
  /\ Cardinality({i \in 1..Len(clauses) : IsLogical(i)}) = 2
  /\ IsField(Len(clauses)) /\ clauses[Len(clauses)].operator = ">="

\* The tokens build() joins in the current state.
Parts == buildParts(clauses)

ConnectivePositions == {i \in 1..Len(Parts) : IsConnective(Parts[i])}

FieldPositions == {i \in 1..Len(Parts) : ~IsConnective(Parts[i])}

\* C28: the token list of build() never starts with a connective, never ends
\* with one, never has two adjacent connectives, and has fewer connective
\* tokens than field tokens when it has a field token, and none otherwise.
C28_TokenShape ==
  /\ Parts # <<>> => ~IsConnective(Parts[1]) /\ ~IsConnective(Parts[Len(Parts)])
  /\ \A i \in 1..(Len(Parts) - 1) : ~(IsConnective(Parts[i]) /\ IsConnective(Parts[i + 1]))
  /\ IF FieldPositions # {}
     THEN Cardinality(ConnectivePositions) < Cardinality(FieldPositions)
     ELSE ConnectivePositions = {}
  /\ Query = join(Parts, <<" ">>)

\* a doubled connective between two field clauses and a trailing one
C28_Witness ==
  /\ Len(clauses) = 5
  /\ IsField(1) /\ IsLogical(2) /\ IsLogical(3) /\ IsField(4) /\ IsLogical(5)
  /\ Len(Parts) = 3 /\ IsConnective(Parts[2])

\* The number of consecutive backslashes of s that end at position k.
RECURSIVE backslashesBefore(_, _)
backslashesBefore(s, k) ==
  IF k < 1 \/ s[k] # "\\" THEN 0 ELSE 1 + backslashesBefore(s, k - 1)

\* Reading an escaped text back: a backslash and the character after it
\* stand for that character.
RECURSIVE unescape(_)
unescape(s) ==
  IF s = <<>> THEN <<>>
  ELSE IF Head(s) = "\\" /\ Len(s) >= 2 THEN <<s[2]>> \o unescape(SubSeq(s, 3, Len(s)))
  ELSE <<Head(s)>> \o unescape(Tail(s))

\* What a reader of the quoted literal lit takes the raw string to be.
unquote(lit) == unescape(SubSeq(lit, 2, Len(lit) - 1))

\* C29: the quoted literal of a string value differs from the literal of
\* every other raw string, every double quote inside it is preceded by an
\* odd number of consecutive backslashes, and un-escaping it gives the raw
\* string back.
C29_EscapeInjective ==
  \A i \in 1..Len(clauses) :
    (IsField(i) /\ clauses[i].value.type = "string") =>
      LET raw == clauses[i].value.s
          lit == escapeAndQuote(raw)
          head == (IF clauses[i].negated THEN <<"-">> ELSE <<>>)
                    \o clauses[i].field \o Chars(clauses[i].operator)
      IN /\ Query = head \o lit
         /\ Len(lit) >= 2 /\ lit[1] = "\"" /\ lit[Len(lit)] = "\""
         /\ \A k \in 2..(Len(lit) - 1) :
              lit[k] = "\"" => backslashesBefore(lit, k - 1) % 2 = 1
         /\ unquote(lit) = raw
         /\ \A other \in StringsUpTo(MaxRaw) :
              other # raw => escapeAndQuote(other) # lit

\* build() of a value that is a backslash, a quote and a backslash
C29_Witness ==
  /\ call = "build"
  /\ Len(clauses) = 1 /\ clauses[1].value = StringValue(<<"\\", "\"", "\\">>)
  /\ returned = <<"a", ":", "\"", "\\", "\\", "\\", "\"", "\\", "\\", "\"">>

====
